---- MODULE Spec2Model ----
(***************************************************************************)
(* SwiftPost queue engine: the token and counter tables, the QueueManager  *)
(* and CounterService operations and the POST /call-next route, as a       *)
(* state machine.  Every awaited database query of a handler is one step;  *)
(* concurrent requests interleave between their queries (the store runs    *)
(* each statement at READ COMMITTED and enforces its unique indexes and    *)
(* its foreign key).                                                       *)
(***************************************************************************)
EXTENDS Integers, Sequences, FiniteSets, TLC

VARIABLES tokens, counters, now, procs, last, api

vars == <<tokens, counters, now, procs, last, api>>
store == <<tokens, counters, now>>

(* ------------------------------ bounds -------------------------------- *)
MaxTokens == 3
MaxProcs == 2
MaxTime == 4
DayLen == 2
TickMs == 150000
NumCategories == 2
MaxCounterNumber == 1
MaxCounters == 1
MaxQueue == 2
MaxClock == 2
MaxPosition == 4
MaxIssued == 999
MinPrior == 8
MaxPrior == 10
MaxStore == 12
MaxRequests == 2
MaxClientTime == 6
ClientTickMs == 20000

(* ------------------------- program constants -------------------------- *)
maxAttempts == 10
MsPerMinute == 60000
DefaultServiceTime == 5
MinServiceTime == 2
PadWidth == 3
Null == 0

WAITING == "WAITING"
SERVING == "SERVING"
COMPLETED == "COMPLETED"
ACTIVE == "ACTIVE"
INACTIVE == "INACTIVE"
\* the mark of a counter row that was deleted (ids are never given again)
DELETED == "DELETED"

ServiceTypes ==
  <<"Parcel Drop-off", "Banking Services", "General Inquiry", "Document Verification">>

Min(a, b) == IF a < b THEN a ELSE b
Max(a, b) == IF a > b THEN a ELSE b

Categories == {ServiceTypes[i] : i \in 1..Min(NumCategories, Len(ServiceTypes))}
CounterNumbers == 0..MaxCounterNumber
CounterIds == 1..(MaxCounters + 1)
Procs == 1..MaxProcs

(* ------------------------- token identifiers -------------------------- *)
getServicePrefix(serviceType) ==
  CASE serviceType = "Parcel Drop-off" -> "P"
    [] serviceType = "Banking Services" -> "B"
    [] serviceType = "General Inquiry" -> "G"
    [] serviceType = "Document Verification" -> "D"
    [] OTHER -> "G"

DigitChar(d) == <<"0", "1", "2", "3", "4", "5", "6", "7", "8", "9">>[d + 1]

RECURSIVE ToDigits(_)
ToDigits(n) == IF n < 10 THEN <<DigitChar(n)>>
               ELSE ToDigits(n \div 10) \o <<DigitChar(n % 10)>>

RECURSIVE padStart(_, _, _)
padStart(s, width, ch) == IF Len(s) >= width THEN s ELSE padStart(<<ch>> \o s, width, ch)

FormatTokenNumber(prefix, tokenNum) ==
  <<prefix, "-">> \o padStart(ToDigits(tokenNum), PadWidth, "0")

CharDigit(c) == CHOOSE d \in 0..9 : DigitChar(d) = c

RECURSIVE parseInt(_)
parseInt(s) == IF Len(s) = 0 THEN 0
               ELSE 10 * parseInt(SubSeq(s, 1, Len(s) - 1)) + CharDigit(s[Len(s)])

SequenceNumber(tokenNumber) == parseInt(SubSeq(tokenNumber, 3, Len(tokenNumber)))

UnknownCode == <<"X", "-", "9", "9", "9">>

(* ------------------------------ queries ------------------------------- *)
TokenIds == DOMAIN tokens

findUnique(tokenNumber) == {i \in TokenIds : tokens[i].tokenNumber = tokenNumber}

todayStartOf(t) == t - (t % DayLen)
todayEndOf(t) == todayStartOf(t) + DayLen - 1

countToday(serviceType, todayStart, todayEnd) ==
  Cardinality({i \in TokenIds : /\ tokens[i].serviceType = serviceType
                                /\ tokens[i].createdAt >= todayStart
                                /\ tokens[i].createdAt <= todayEnd})

countWaiting(serviceType) ==
  Cardinality({i \in TokenIds : /\ tokens[i].status = WAITING
                                /\ tokens[i].serviceType = serviceType})

\* the queuePosition column written at creation instead of the count
calculateQueuePositionStored(tokenNumber) ==
  LET found == findUnique(tokenNumber) IN
  IF found = {} THEN 0
  ELSE LET t == tokens[CHOOSE i \in found : TRUE] IN
       IF t.status # WAITING THEN 0 ELSE t.queuePosition

\* createdAt lte instead of lt
calculateQueuePositionInclusive(tokenNumber) ==
  LET found == findUnique(tokenNumber) IN
  IF found = {} THEN 0
  ELSE LET t == tokens[CHOOSE i \in found : TRUE] IN
       IF t.status # WAITING THEN 0
       ELSE Cardinality({i \in TokenIds : /\ tokens[i].status = WAITING
                                          /\ tokens[i].serviceType = t.serviceType
                                          /\ tokens[i].createdAt <= t.createdAt}) + 1

calculateQueuePosition(tokenNumber) ==
  LET found == findUnique(tokenNumber) IN
  IF found = {} THEN 0
  ELSE LET t == tokens[CHOOSE i \in found : TRUE] IN
       IF t.status # WAITING THEN 0
       ELSE Cardinality({i \in TokenIds : /\ tokens[i].status = WAITING
                                          /\ tokens[i].serviceType = t.serviceType
                                          /\ tokens[i].createdAt < t.createdAt}) + 1

RECURSIVE SumServiceTime(_)
SumServiceTime(S) ==
  IF S = {} THEN 0
  ELSE LET i == CHOOSE x \in S : TRUE IN
       (IF tokens[i].calledAt # Null /\ tokens[i].completedAt # Null
          THEN (tokens[i].completedAt - tokens[i].calledAt) * TickMs ELSE 0)
       + SumServiceTime(S \ {i})

\* the average cut to whole minutes (Math.floor) instead of Math.round
estimateWaitTimeTruncated(queuePosition) ==
  LET yesterday == now - DayLen
      completedTokens == {i \in TokenIds : /\ tokens[i].status = COMPLETED
                                           /\ tokens[i].calledAt # Null
                                           /\ tokens[i].completedAt # Null
                                           /\ tokens[i].createdAt >= yesterday}
      n == Cardinality(completedTokens)
      total == SumServiceTime(completedTokens)
      truncated == total \div (n * MsPerMinute)
      averageServiceTime == IF n > 0 THEN Max(truncated, MinServiceTime)
                            ELSE DefaultServiceTime
  IN Max(0, (queuePosition - 1) * averageServiceTime)

\* (queuePosition - 1) * averageServiceTime, without Math.max(0, ...)
estimateWaitTimeUnclamped(queuePosition) ==
  LET yesterday == now - DayLen
      completedTokens == {i \in TokenIds : /\ tokens[i].status = COMPLETED
                                           /\ tokens[i].calledAt # Null
                                           /\ tokens[i].completedAt # Null
                                           /\ tokens[i].createdAt >= yesterday}
      n == Cardinality(completedTokens)
      total == SumServiceTime(completedTokens)
      rounded == (2 * total + n * MsPerMinute) \div (2 * n * MsPerMinute)
      averageServiceTime == IF n > 0 THEN Max(rounded, MinServiceTime)
                            ELSE DefaultServiceTime
  IN (queuePosition - 1) * averageServiceTime

\* the tokens that enter the average: COMPLETED, both timestamps set, createdAt
\* not older than 24 hours (one day length) before the call
completedTokens ==
  {i \in TokenIds : /\ tokens[i].status = COMPLETED
                    /\ tokens[i].calledAt # Null
                    /\ tokens[i].completedAt # Null
                    /\ tokens[i].createdAt >= now - DayLen}

estimateWaitTime(queuePosition) ==
  LET n == Cardinality(completedTokens)
      total == SumServiceTime(completedTokens)
      rounded == (2 * total + n * MsPerMinute) \div (2 * n * MsPerMinute)
      averageServiceTime == IF n > 0 THEN Max(rounded, MinServiceTime)
                            ELSE DefaultServiceTime
  IN Max(0, (queuePosition - 1) * averageServiceTime)

WaitingIds == {i \in TokenIds : tokens[i].status = WAITING}

\* orderBy createdAt desc instead of asc
getNextTokenLatest ==
  IF WaitingIds = {} THEN {Null}
  ELSE {i \in WaitingIds : \A j \in WaitingIds : tokens[i].createdAt >= tokens[j].createdAt}

\* findFirst where status = WAITING orderBy createdAt asc: any row of least createdAt
\* (the query names no second sort key); 0 stands for null.
getNextTokenResults ==
  IF WaitingIds = {} THEN {Null}
  ELSE {i \in WaitingIds : \A j \in WaitingIds : tokens[i].createdAt <= tokens[j].createdAt}

(* --------------------------- request slots ---------------------------- *)
\* a request in flight: the handler's position and its local variables
Idle ==
  [op |-> "none", pc |-> "idle", serviceType |-> "", todayStart |-> 0, todayEnd |-> 0,
   todayTokens |-> 0, attempts |-> 0, tokenNumber |-> <<>>, queuePosition |-> 0,
   counterId |-> 0, number |-> 0, nextToken |-> 0, availableCounter |-> 0]

\* the answer of the request that finished last
Resp(op, ok, error, tokenNumber, counterId) ==
  [op |-> op, ok |-> ok, error |-> error, tokenNumber |-> tokenNumber,
   counterId |-> counterId, queuePosition |-> 0, estimatedWaitTime |-> 0]

NoResp == Resp("none", FALSE, "", <<>>, 0)

Free(p) == procs[p].pc = "idle"
\* a new request takes the lowest free slot (slots are interchangeable)
Slot(p) == Free(p) /\ \A q \in Procs : q < p => ~Free(q)

Continue(p, r) == procs' = [procs EXCEPT ![p] = r] /\ UNCHANGED last
Finish(p, resp) == procs' = [procs EXCEPT ![p] = Idle] /\ last' = resp

InFlight(op) == Cardinality({p \in Procs : procs[p].op = op})

(* --------------------- QueueManager.generateToken --------------------- *)
\* the day window is read from the clock before the transaction starts
generateTokenStart(p, serviceType) ==
  /\ Slot(p)
  /\ Len(tokens) + InFlight("generateToken") < MaxTokens
  /\ Continue(p, [Idle EXCEPT !.op = "generateToken", !.pc = "gt_count",
                              !.serviceType = serviceType,
                              !.todayStart = todayStartOf(now),
                              !.todayEnd = todayEndOf(now)])
  /\ UNCHANGED <<store, api>>

generateTokenCount(p) ==
  /\ procs[p].pc = "gt_count"
  /\ LET r == procs[p] IN
     Continue(p, [r EXCEPT !.pc = "gt_find", !.todayStart = 0, !.todayEnd = 0,
                           !.todayTokens =
                              countToday(r.serviceType, r.todayStart, r.todayEnd)])
  /\ UNCHANGED <<store, api>>

CandidateFromZero(r) ==
  FormatTokenNumber(getServicePrefix(r.serviceType), r.todayTokens + r.attempts)

\* tokenNum = todayTokens + attempts + 1, formatted as <prefix>-<3 digits>
Candidate(r) ==
  FormatTokenNumber(getServicePrefix(r.serviceType), r.todayTokens + r.attempts + 1)

\* a single pass: the call gives up when its first candidate exists
generateTokenFindOnce(p) ==
  /\ procs[p].pc = "gt_find"
  /\ LET r == procs[p]
         tokenNumber == Candidate(r) IN
     IF findUnique(tokenNumber) = {}
       THEN Continue(p, [r EXCEPT !.pc = "gt_pos", !.tokenNumber = tokenNumber,
                                  !.todayTokens = 0, !.attempts = 0])
     ELSE Finish(p, Resp("generateToken", FALSE, "Unable to generate unique token number",
                         <<>>, 0))
  /\ UNCHANGED <<store, api>>

\* one pass of the do-while: format the candidate, look it up, leave or count the attempt
generateTokenFind(p) ==
  /\ procs[p].pc = "gt_find"
  /\ LET r == procs[p]
         tokenNumber == Candidate(r) IN
     IF findUnique(tokenNumber) = {}
       THEN Continue(p, [r EXCEPT !.pc = "gt_pos", !.tokenNumber = tokenNumber,
                                  !.todayTokens = 0, !.attempts = 0])
     ELSE IF r.attempts + 1 < maxAttempts
       THEN Continue(p, [r EXCEPT !.attempts = r.attempts + 1])
     ELSE Finish(p, Resp("generateToken", FALSE, "Unable to generate unique token number",
                         <<>>, 0))
  /\ UNCHANGED <<store, api>>

generateTokenPosition(p) ==
  /\ procs[p].pc = "gt_pos"
  /\ Continue(p, [procs[p] EXCEPT !.pc = "gt_create",
                                  !.queuePosition = countWaiting(procs[p].serviceType) + 1])
  /\ UNCHANGED <<store, api>>

NewToken(r) ==
  [tokenNumber |-> r.tokenNumber, serviceType |-> r.serviceType, status |-> WAITING,
   queuePosition |-> r.queuePosition, counterId |-> Null, createdAt |-> now,
   calledAt |-> Null, completedAt |-> Null]

NoTokenNumberKey(tokenNumber) == TRUE

\* tokens_tokenNumber_key: the insert of a code that exists is refused
TokenNumberKeyFree(tokenNumber) == findUnique(tokenNumber) = {}

generateTokenCreate(p) ==
  /\ procs[p].pc = "gt_create"
  /\ LET r == procs[p] IN
     IF TokenNumberKeyFree(r.tokenNumber)
       THEN /\ tokens' = Append(tokens, NewToken(r))
            /\ Continue(p, [r EXCEPT !.pc = "gt_estimate"])
       ELSE /\ tokens' = tokens
            /\ Finish(p, Resp("generateToken", FALSE,
                              "Unique constraint failed on tokenNumber", r.tokenNumber, 0))
  /\ UNCHANGED <<counters, now, api>>

\* result.queuePosition || 1
OrOne(queuePosition) == IF queuePosition = 0 THEN 1 ELSE queuePosition

generateTokenReturn(p) ==
  /\ procs[p].pc = "gt_estimate"
  /\ LET r == procs[p] IN
     Finish(p, [Resp("generateToken", TRUE, "", r.tokenNumber, 0) EXCEPT
                  !.queuePosition = OrOne(r.queuePosition),
                  !.estimatedWaitTime = estimateWaitTime(OrOne(r.queuePosition))])
  /\ UNCHANGED <<store, api>>

generateToken ==
  \/ \E p \in Procs, serviceType \in Categories : generateTokenStart(p, serviceType)
  \/ \E p \in Procs : generateTokenCount(p)
  \/ \E p \in Procs : generateTokenFind(p)
  \/ \E p \in Procs : generateTokenPosition(p)
  \/ \E p \in Procs : generateTokenCreate(p)
  \/ \E p \in Procs : generateTokenReturn(p)

(* ---------------------------- POST /tokens ---------------------------- *)
validServiceTypes == {ServiceTypes[k] : k \in DOMAIN ServiceTypes}

\* a service type that is none of the four
InvalidService == "Invalid Service"

\* the route checks the body, then calls QueueManager.generateToken
postTokens(p, serviceType) ==
  /\ Slot(p)
  /\ IF serviceType = ""
       THEN /\ Finish(p, Resp("postTokens", FALSE, "Service type is required", <<>>, 0))
            /\ UNCHANGED <<store, api>>
     ELSE IF serviceType \notin validServiceTypes
       THEN /\ Finish(p, Resp("postTokens", FALSE, "Invalid service type", <<>>, 0))
            /\ UNCHANGED <<store, api>>
     ELSE generateTokenStart(p, serviceType)

(* ----------------------------- counters ------------------------------ *)
\* the ids of the rows of counters
CounterRows == {c \in DOMAIN counters : counters[c].status # DELETED}

\* a lookup that finds no row, whatever the number
findCounterNone(number) == {}

\* counter.findUnique({ where: { number } }), and the rows counters_number_key compares
findCounterByNumber(number) == {c \in CounterRows : counters[c].number = number}

\* the SERVING tokens of a counter (include: { tokens: { where: { status: 'SERVING' } } })
ServingTokens(counterId) ==
  {i \in TokenIds : tokens[i].counterId = counterId /\ tokens[i].status = SERVING}

\* status ACTIVE and tokens none SERVING
getAvailableCounters ==
  {c \in CounterRows : counters[c].status = ACTIVE /\ ServingTokens(c) = {}}

\* availableCounters[0] under orderBy number asc
FirstAvailableCounter ==
  IF getAvailableCounters = {} THEN Null
  ELSE CHOOSE c \in getAvailableCounters :
         \A d \in getAvailableCounters : counters[c].number <= counters[d].number

(* ----------------- QueueManager.assignTokenToCounter ------------------ *)
\* tokens_counterId_fkey: counterId must name a row of counters
ForeignKeyHolds(counterId) == counterId \in CounterRows

\* the outcome of token.update({ where: { tokenNumber }, data: {...} })
assignError(tokenNumber, counterId) ==
  IF findUnique(tokenNumber) = {} THEN "Record to update not found"
  ELSE IF ~ForeignKeyHolds(counterId) THEN "Foreign key constraint failed on counterId"
  ELSE ""

\* an update with no where clause: every row is put in service
assignTokenToCounterEveryRow(tokenNumber, counterId) ==
  IF assignError(tokenNumber, counterId) # "" THEN tokens
  ELSE [i \in TokenIds |->
          [tokens[i] EXCEPT !.status = SERVING, !.counterId = counterId, !.calledAt = now]]

assignTokenToCounter(tokenNumber, counterId) ==
  IF assignError(tokenNumber, counterId) # "" THEN tokens
  ELSE [i \in TokenIds |->
          IF tokens[i].tokenNumber = tokenNumber
            THEN [tokens[i] EXCEPT !.status = SERVING, !.counterId = counterId,
                                   !.calledAt = now]
            ELSE tokens[i]]

\* a direct call of the service method (the tests call it so)
assignTokenToCounterCall(tokenNumber, counterId) ==
  /\ tokens' = assignTokenToCounter(tokenNumber, counterId)
  /\ last' = Resp("assignTokenToCounter", assignError(tokenNumber, counterId) = "",
                  assignError(tokenNumber, counterId), tokenNumber, counterId)
  /\ UNCHANGED <<counters, now, api, procs>>

(* -------------------- QueueManager.completeToken ---------------------- *)
completeError(tokenNumber) ==
  IF findUnique(tokenNumber) = {} THEN "Record to update not found" ELSE ""

\* an update that leaves counterId as it is
completeTokenKeepingCounter(tokenNumber) ==
  [i \in TokenIds |->
     IF tokens[i].tokenNumber = tokenNumber
       THEN [tokens[i] EXCEPT !.status = COMPLETED, !.completedAt = now]
       ELSE tokens[i]]

completeToken(tokenNumber) ==
  [i \in TokenIds |->
     IF tokens[i].tokenNumber = tokenNumber
       THEN [tokens[i] EXCEPT !.status = COMPLETED, !.completedAt = now,
                              !.counterId = Null]
       ELSE tokens[i]]

\* QueueManager.completeToken, as POST /:tokenNumber/complete calls it
completeTokenCall(tokenNumber) ==
  /\ tokens' = completeToken(tokenNumber)
  /\ last' = Resp("completeToken", completeError(tokenNumber) = "",
                  completeError(tokenNumber), tokenNumber, 0)
  /\ UNCHANGED <<counters, now, api, procs>>

(* -------------------- POST /:tokenNumber/complete --------------------- *)
\* the route calls completeToken and answers every error the same way
postComplete(tokenNumber) ==
  /\ tokens' = IF completeError(tokenNumber) = "" THEN completeToken(tokenNumber) ELSE tokens
  /\ last' = Resp("postComplete", completeError(tokenNumber) = "",
                  IF completeError(tokenNumber) = "" THEN "" ELSE "Failed to complete token",
                  tokenNumber, 0)
  /\ UNCHANGED <<counters, now, api, procs>>

(* -------------------------- POST /call-next --------------------------- *)
\* validation and getNextToken; the assignment is a second query
callNextGet(p, counterId) ==
  /\ Slot(p)
  /\ \E nextToken \in getNextTokenResults :
       IF counterId = 0
         THEN Finish(p, Resp("callNext", FALSE, "Counter ID is required", <<>>, counterId))
       ELSE IF nextToken = Null
         THEN Finish(p, Resp("callNext", FALSE, "No tokens in queue", <<>>, counterId))
       ELSE Continue(p, [Idle EXCEPT !.op = "callNext", !.pc = "cn_assign",
                                     !.counterId = counterId, !.nextToken = nextToken])
  /\ UNCHANGED <<store, api>>

callNextAssign(p) ==
  /\ procs[p].pc = "cn_assign"
  /\ LET r == procs[p]
         tokenNumber == tokens[r.nextToken].tokenNumber IN
     /\ tokens' = assignTokenToCounter(tokenNumber, r.counterId)
     /\ Finish(p, Resp("callNext", assignError(tokenNumber, r.counterId) = "",
                       IF assignError(tokenNumber, r.counterId) = "" THEN ""
                       ELSE "Failed to call next token", tokenNumber, r.counterId))
  /\ UNCHANGED <<counters, now, api>>

\* the HTTP status of a route's answer (0: the answer of a service method)
statusCode(resp) ==
  CASE resp.op = "postTokens" -> 400
    [] resp.op = "callNext" ->
         IF resp.ok THEN 200
         ELSE IF resp.error = "Counter ID is required" THEN 400
         ELSE IF resp.error = "No tokens in queue" THEN 404
         ELSE 500
    [] resp.op = "postComplete" -> IF resp.ok THEN 200 ELSE 500
    [] OTHER -> 0

(* ------------- the notification step of the token routes -------------- *)
\* After the service call has returned, the route takes the emitter
\* (getSocketInstance) and a statistics snapshot (getQueueStats) inside the same try
\* block; either may throw, and the catch answers 500.
callNextEmitFails(p) ==
  /\ procs[p].pc = "cn_assign"
  /\ LET r == procs[p]
         tokenNumber == tokens[r.nextToken].tokenNumber IN
     /\ tokens' = assignTokenToCounter(tokenNumber, r.counterId)
     /\ Finish(p, Resp("callNext", FALSE, "Failed to call next token", tokenNumber,
                       r.counterId))
  /\ UNCHANGED <<counters, now, api>>

postCompleteEmitFails(tokenNumber) ==
  /\ tokens' = IF completeError(tokenNumber) = "" THEN completeToken(tokenNumber) ELSE tokens
  /\ last' = Resp("postComplete", FALSE, "Failed to complete token", tokenNumber, 0)
  /\ UNCHANGED <<counters, now, api, procs>>

postTokensEmitFails(p) ==
  /\ procs[p].pc = "gt_estimate"
  /\ Finish(p, Resp("generateToken", FALSE, "Failed to generate token",
                    procs[p].tokenNumber, 0))
  /\ UNCHANGED <<store, api>>

\* the event that the route emits (io.emit) before it sends the answer resp, "" for
\* none: creations are POST /tokens, registrations POST /counters, status changes
\* PATCH /counters/:id/status
notification(resp) ==
  IF ~resp.ok THEN ""
  ELSE CASE resp.op = "generateToken" -> "tokenGenerated"
         [] resp.op = "callNext" -> "tokenCalled"
         [] resp.op = "postComplete" -> "tokenCompleted"
         [] resp.op = "addCounter" -> "counterAdded"
         [] resp.op \in {"activateCounter", "deactivateCounter"} -> "counterStatusChanged"
         [] OTHER -> ""

(* -------------------- CounterService.assignCounter -------------------- *)
assignCounterError(counterId) ==
  IF counterId \notin CounterRows THEN "Counter not found"
  ELSE IF counters[counterId].status = INACTIVE THEN "Counter is inactive"
  ELSE IF ServingTokens(counterId) # {} THEN "Counter is already serving a token"
  ELSE ""

assignCounterCheck(p, counterId, tokenNumber) ==
  /\ Slot(p)
  /\ IF assignCounterError(counterId) # ""
       THEN Finish(p, Resp("assignCounter", FALSE, assignCounterError(counterId),
                           tokenNumber, counterId))
       ELSE Continue(p, [Idle EXCEPT !.op = "assignCounter", !.pc = "ac_assign",
                                     !.counterId = counterId, !.tokenNumber = tokenNumber])
  /\ UNCHANGED <<store, api>>

assignCounterAssign(p) ==
  /\ procs[p].pc = "ac_assign"
  /\ LET r == procs[p] IN
     /\ tokens' = assignTokenToCounter(r.tokenNumber, r.counterId)
     /\ Finish(p, Resp("assignCounter", assignError(r.tokenNumber, r.counterId) = "",
                       assignError(r.tokenNumber, r.counterId), r.tokenNumber, r.counterId))
  /\ UNCHANGED <<counters, now, api>>

(* ---------------- CounterService.tryAssignWaitingToken ---------------- *)
\* The three queries of tryAssignWaitingToken, run by slot p.  The slot's op says who
\* called it: addCounter and activateCounter ignore the boolean and return the counter,
\* a direct call answers the boolean (in ok).
Returned(r, value, tokenNumber) ==
  Resp(r.op, IF r.op = "tryAssignWaitingToken" THEN value ELSE TRUE, "", tokenNumber,
       r.counterId)

tryAssignNext(p) ==
  /\ procs[p].pc = "ta_next"
  /\ \E nextToken \in getNextTokenResults :
       IF nextToken = Null THEN Finish(p, Returned(procs[p], FALSE, <<>>))
       ELSE Continue(p, [procs[p] EXCEPT !.pc = "ta_counter", !.nextToken = nextToken])
  /\ UNCHANGED <<store, api>>

\* the given counter taken whenever its row exists, serving or inactive as it may be
availableCounterUnchecked(counterId) ==
  IF counterId # 0
    THEN IF counterId \in CounterRows THEN counterId ELSE Null
    ELSE FirstAvailableCounter

\* the counter given, if it is ACTIVE and serves no token; without one, availableCounters[0]
availableCounter(counterId) ==
  IF counterId # 0
    THEN IF /\ counterId \in CounterRows
            /\ counters[counterId].status = ACTIVE
            /\ ServingTokens(counterId) = {}
           THEN counterId ELSE Null
    ELSE FirstAvailableCounter

tryAssignCounter(p) ==
  /\ procs[p].pc = "ta_counter"
  /\ LET r == procs[p]
         found == availableCounter(r.counterId) IN
     IF found = Null THEN Finish(p, Returned(r, FALSE, <<>>))
     ELSE Continue(p, [r EXCEPT !.pc = "ta_assign", !.availableCounter = found])
  /\ UNCHANGED <<store, api>>

tryAssignAssign(p) ==
  /\ procs[p].pc = "ta_assign"
  /\ LET r == procs[p]
         tokenNumber == tokens[r.nextToken].tokenNumber IN
     /\ tokens' = assignTokenToCounter(tokenNumber, r.availableCounter)
     /\ Finish(p, Returned(r, assignError(tokenNumber, r.availableCounter) = "",
                           tokenNumber))
  /\ UNCHANGED <<counters, now, api>>

tryAssignWaitingTokenCall(p, counterId) ==
  /\ Slot(p)
  /\ Continue(p, [Idle EXCEPT !.op = "tryAssignWaitingToken", !.pc = "ta_next",
                              !.counterId = counterId])
  /\ UNCHANGED <<store, api>>

(* --------------------- CounterService.addCounter ---------------------- *)
\* not the test environment: a number in use is refused
addCounterFind(p, number) ==
  /\ Slot(p)
  /\ IF findCounterByNumber(number) # {}
       THEN Finish(p, Resp("addCounter", FALSE, "Counter already exists", <<>>, 0))
       ELSE Continue(p, [Idle EXCEPT !.op = "addCounter", !.pc = "add_create",
                                     !.number = number])
  /\ UNCHANGED <<store, api>>

\* counters_number_key refuses a second row of the number
addCounterCreate(p) ==
  /\ procs[p].pc = "add_create"
  /\ LET r == procs[p] IN
     IF findCounterByNumber(r.number) = {}
       THEN /\ counters' = Append(counters, [number |-> r.number, status |-> ACTIVE])
            /\ Continue(p, [r EXCEPT !.pc = "ta_next", !.counterId = Len(counters) + 1,
                                     !.number = 0])
       ELSE /\ counters' = counters
            /\ Finish(p, Resp("addCounter", FALSE, "Unique constraint failed on number",
                              <<>>, 0))
  /\ UNCHANGED <<tokens, now, api>>

(* ------------ CounterService.activateCounter / deactivate ------------- *)
activateCounter(p, counterId) ==
  /\ Slot(p)
  /\ IF counterId \in CounterRows
       THEN /\ counters' = [counters EXCEPT ![counterId].status = ACTIVE]
            /\ Continue(p, [Idle EXCEPT !.op = "activateCounter", !.pc = "ta_next",
                                        !.counterId = counterId])
       ELSE /\ counters' = counters
            /\ Finish(p, Resp("activateCounter", FALSE, "Record to update not found",
                              <<>>, counterId))
  /\ UNCHANGED <<tokens, now, api>>

deactivateCounterCount(p, counterId) ==
  /\ Slot(p)
  /\ IF ServingTokens(counterId) # {}
       THEN Finish(p, Resp("deactivateCounter", FALSE,
                           "Cannot deactivate counter with active tokens", <<>>, counterId))
       ELSE Continue(p, [Idle EXCEPT !.op = "deactivateCounter", !.pc = "dc_update",
                                     !.counterId = counterId])
  /\ UNCHANGED <<store, api>>

deactivateCounterUpdate(p) ==
  /\ procs[p].pc = "dc_update"
  /\ LET r == procs[p] IN
     IF r.counterId \in CounterRows
       THEN /\ counters' = [counters EXCEPT ![r.counterId].status = INACTIVE]
            /\ Finish(p, Resp("deactivateCounter", TRUE, "", <<>>, r.counterId))
       ELSE /\ counters' = counters
            /\ Finish(p, Resp("deactivateCounter", FALSE, "Record to update not found",
                              <<>>, r.counterId))
  /\ UNCHANGED <<tokens, now, api>>

(* -------------------- QueueManager.getTokenDetails -------------------- *)
\* x || null for a number x: 0 is falsy; <<>> stands for null, <<x>> for the number x
OrNull(x) == IF x = 0 THEN <<>> ELSE <<x>>

\* the queuePosition column of the row instead of the recomputed position
getTokenDetailsStored(tokenNumber) ==
  LET found == findUnique(tokenNumber) IN
  IF found = {} THEN <<>>
  ELSE LET t == tokens[CHOOSE i \in found : TRUE]
           currentPosition == t.queuePosition
       IN <<[tokenNumber |-> t.tokenNumber, serviceType |-> t.serviceType,
             status |-> t.status, queuePosition |-> currentPosition,
             estimatedWaitTime |-> estimateWaitTime(currentPosition),
             counter |-> IF t.counterId \in CounterRows
                           THEN OrNull(counters[t.counterId].number) ELSE <<>>,
             createdAt |-> t.createdAt, calledAt |-> OrNull(t.calledAt),
             completedAt |-> OrNull(t.completedAt)]>>

getTokenDetails(tokenNumber) ==
  LET found == findUnique(tokenNumber) IN
  IF found = {} THEN <<>>
  ELSE LET t == tokens[CHOOSE i \in found : TRUE]
           currentPosition ==
             IF t.status = WAITING THEN calculateQueuePosition(tokenNumber) ELSE 0
       IN <<[tokenNumber |-> t.tokenNumber, serviceType |-> t.serviceType,
             status |-> t.status, queuePosition |-> currentPosition,
             estimatedWaitTime |->
               IF t.status = WAITING THEN estimateWaitTime(currentPosition) ELSE 0,
             counter |-> IF t.counterId \in CounterRows
                           THEN OrNull(counters[t.counterId].number) ELSE <<>>,
             createdAt |-> t.createdAt, calledAt |-> OrNull(t.calledAt),
             completedAt |-> OrNull(t.completedAt)]>>

(* -------------------- CounterService.deleteCounter -------------------- *)
deleteCounterCount(p, counterId) ==
  /\ Slot(p)
  /\ IF ServingTokens(counterId) # {}
       THEN Finish(p, Resp("deleteCounter", FALSE,
                           "Cannot delete counter with active tokens", <<>>, counterId))
       ELSE Continue(p, [Idle EXCEPT !.op = "deleteCounter", !.pc = "del_delete",
                                     !.counterId = counterId])
  /\ UNCHANGED <<store, api>>

\* counter.delete; tokens_counterId_fkey is ON DELETE SET NULL
deleteCounterDelete(p) ==
  /\ procs[p].pc = "del_delete"
  /\ LET r == procs[p] IN
     IF r.counterId \in CounterRows
       THEN /\ counters' = [counters EXCEPT ![r.counterId].status = DELETED]
            /\ tokens' = [i \in TokenIds |->
                            IF tokens[i].counterId = r.counterId
                              THEN [tokens[i] EXCEPT !.counterId = Null]
                              ELSE tokens[i]]
            /\ Finish(p, Resp("deleteCounter", TRUE, "", <<>>, r.counterId))
       ELSE /\ counters' = counters
            /\ tokens' = tokens
            /\ Finish(p, Resp("deleteCounter", FALSE, "Record to delete does not exist",
                              <<>>, r.counterId))
  /\ UNCHANGED <<now, api>>

(* ---------------- StatisticsService.getQueueStatistics ---------------- *)
\* createdAt to calledAt, summed over the rows of S
RECURSIVE SumWaitTime(_)
SumWaitTime(S) ==
  IF S = {} THEN 0
  ELSE LET i == CHOOSE x \in S : TRUE IN
       (IF tokens[i].calledAt # Null
          THEN (tokens[i].calledAt - tokens[i].createdAt) * TickMs ELSE 0)
       + SumWaitTime(S \ {i})

\* Math.round(x * 10) / 10 of the mean wait in minutes, in tenths of a minute
averageWaitTime(S) ==
  IF S = {} THEN 0
  ELSE (20 * SumWaitTime(S) + Cardinality(S) * MsPerMinute)
         \div (2 * Cardinality(S) * MsPerMinute)

\* the five numbers with every token counted into totalTokensToday, whatever its day
getQueueStatisticsAllDays ==
  [totalTokensToday |-> Len(tokens),
   tokensInQueue |-> Cardinality({i \in TokenIds : tokens[i].status = WAITING}),
   averageWaitTime |->
     averageWaitTime({i \in TokenIds : /\ tokens[i].status = COMPLETED
                                       /\ tokens[i].createdAt >= todayStartOf(now)
                                       /\ tokens[i].calledAt # Null
                                       /\ tokens[i].completedAt # Null}),
   activeCounters |-> Cardinality({c \in CounterRows : counters[c].status = ACTIVE}),
   inactiveCounters |-> Cardinality({c \in CounterRows : counters[c].status = INACTIVE})]

\* the five queries, answered from one state of the store
getQueueStatistics ==
  [totalTokensToday |->
     Cardinality({i \in TokenIds : tokens[i].createdAt >= todayStartOf(now)}),
   tokensInQueue |-> Cardinality({i \in TokenIds : tokens[i].status = WAITING}),
   averageWaitTime |->
     averageWaitTime({i \in TokenIds : /\ tokens[i].status = COMPLETED
                                       /\ tokens[i].createdAt >= todayStartOf(now)
                                       /\ tokens[i].calledAt # Null
                                       /\ tokens[i].completedAt # Null}),
   activeCounters |-> Cardinality({c \in CounterRows : counters[c].status = ACTIVE}),
   inactiveCounters |-> Cardinality({c \in CounterRows : counters[c].status = INACTIVE})]

(* ---------------------- client: ApiService.request --------------------- *)
\* The browser's ApiService object: its two circuit-breaker fields, its calls of
\* request() that have not returned yet, and the message of the error the last
\* returned call threw ("" when it returned data).
maxFailures == 3
resetTimeout == 60000

Requests == 1..MaxRequests

IdleRequest == [pc |-> "idle", retries |-> 0]

ApiInit ==
  [failureCount |-> 0, lastFailureTime |-> 0,
   requests |-> [r \in Requests |-> IdleRequest], error |-> ""]

\* Date.now() on the client's clock, one reading every ClientTickMs milliseconds
DateNow == now * ClientTickMs

Unavailable == "Service temporarily unavailable - too many failures"
RequestTimeout == "Request timeout - server may be slow or unavailable"
NetworkError == "Network error - please check if the server is running"

\* what fetch() hands back: a Response (status and the body's error text) or a
\* thrown Error (name and message)
Outcomes ==
  {[thrown |-> FALSE, status |-> 200, name |-> "", message |-> ""],
   [thrown |-> FALSE, status |-> 404, name |-> "", message |-> "Token not found"],
   [thrown |-> FALSE, status |-> 500, name |-> "", message |-> "Failed to generate token"],
   [thrown |-> FALSE, status |-> 500, name |-> "", message |-> "Failed to fetch counters"],
   [thrown |-> TRUE, status |-> 0, name |-> "AbortError", message |-> "The operation was aborted."],
   [thrown |-> TRUE, status |-> 0, name |-> "TypeError", message |-> "Failed to fetch"],
   [thrown |-> TRUE, status |-> 0, name |-> "TypeError",
    message |-> "NetworkError when attempting to fetch resource."]}

\* response.ok
responseOk(o) == o.status \in 200..299

\* message.includes('Failed to fetch') || message.includes('NetworkError')
includesNetworkText(message) ==
  message \in {"Failed to fetch", "Failed to fetch counters",
               "NetworkError when attempting to fetch resource."}

isCircuitOpenStrict ==
  /\ api.failureCount > maxFailures
  /\ DateNow - api.lastFailureTime < resetTimeout

\* isCircuitOpen(): its result ...
isCircuitOpen ==
  /\ api.failureCount >= maxFailures
  /\ DateNow - api.lastFailureTime < resetTimeout

\* ... and the failure count it leaves behind
isCircuitOpenCount ==
  IF api.failureCount >= maxFailures /\ ~(DateNow - api.lastFailureTime < resetTimeout)
    THEN 0
    ELSE api.failureCount

recordFailure(a) == [a EXCEPT !.failureCount = @ + 1, !.lastFailureTime = DateNow]

recordSuccess(a) == [a EXCEPT !.failureCount = 0]

\* request() from its first line to the call of fetch
requestEnter(r, retries) ==
  /\ IF isCircuitOpen
       THEN api' = [api EXCEPT !.requests[r] = IdleRequest, !.error = Unavailable]
       ELSE api' = [api EXCEPT !.failureCount = isCircuitOpenCount,
                               !.requests[r] = [pc |-> "fetch", retries |-> retries]]
  /\ UNCHANGED <<tokens, counters, now, procs, last>>

\* a call by one of the endpoint methods: retries = 1
request(r) ==
  /\ api.requests[r].pc = "idle"
  /\ requestEnter(r, 1)

\* the call request() makes of itself after the two seconds' wait
requestRetry(r) ==
  /\ api.requests[r].pc = "wait"
  /\ requestEnter(r, api.requests[r].retries)

\* request() from the return of fetch to its own return, throw or wait
fetchReturns(r, o) ==
  /\ api.requests[r].pc = "fetch"
  /\ LET retries == api.requests[r].retries
         done(a, message) == [a EXCEPT !.requests[r] = IdleRequest, !.error = message]
     IN IF ~o.thrown /\ responseOk(o)
          THEN api' = done(recordSuccess(api), "")
          ELSE LET a1 == IF ~o.thrown /\ o.status >= 500 THEN recordFailure(api) ELSE api
                   name == IF o.thrown THEN o.name ELSE "Error"
               IN IF name = "AbortError"
                    THEN api' = done(recordFailure(a1), RequestTimeout)
                    ELSE IF includesNetworkText(o.message)
                      THEN LET a2 == recordFailure(a1)
                           IN IF retries > 0 /\ a2.failureCount < maxFailures - 1
                                THEN api' = [a2 EXCEPT !.requests[r] =
                                               [pc |-> "wait", retries |-> retries - 1]]
                                ELSE api' = done(a2, NetworkError)
                      ELSE api' = done(a1, o.message)
  /\ UNCHANGED <<tokens, counters, now, procs, last>>

clientTick ==
  /\ now < MaxClientTime
  /\ now' = now + 1
  /\ UNCHANGED <<tokens, counters, procs, last, api>>

(* ------------------------------- clock -------------------------------- *)
Tick ==
  /\ now < MaxTime
  /\ now' = now + 1
  /\ UNCHANGED <<tokens, counters, procs, last, api>>

Init ==
  /\ tokens = <<>>
  /\ counters = <<>>
  /\ now = 1
  /\ procs = [p \in Procs |-> Idle]
  /\ last = NoResp
  /\ api = ApiInit

NextGen == generateToken \/ Tick

SpecGen == Init /\ [][NextGen]_vars

TokenCodes == {tokens[i].tokenNumber : i \in TokenIds} \cup {UnknownCode}

\* Registrations and token creations run one at a time wherever they are marked
\* Quiet (their own interleavings are SpecGen's); every other request runs
\* concurrently with every other, query by query.
Quiet == \A p \in Procs : Free(p)
QuietQueue == Quiet /\ Len(tokens) < MaxQueue
QuietCounters == Quiet /\ Len(counters) < MaxCounters
EarlyTick == now < MaxClock /\ Tick
NoSetup == InFlight("generateToken") = 0 /\ InFlight("addCounter") = 0

\* the steps of a registration or a creation that is in flight
Setup ==
  \/ \E p \in Procs : generateTokenCount(p)
  \/ \E p \in Procs : generateTokenFind(p)
  \/ \E p \in Procs : generateTokenPosition(p)
  \/ \E p \in Procs : generateTokenCreate(p)
  \/ \E p \in Procs : generateTokenReturn(p)
  \/ \E p \in Procs : addCounterCreate(p)
  \/ \E p \in Procs : tryAssignNext(p)
  \/ \E p \in Procs : tryAssignCounter(p)
  \/ \E p \in Procs : tryAssignAssign(p)

\* The queue as the routes drive it: tokens are created, counters registered, staff
\* call the next token and complete tokens.
Next ==
  \/ QuietQueue /\ \E p \in Procs, serviceType \in Categories : generateTokenStart(p, serviceType)
  \/ QuietCounters /\ \E p \in Procs, number \in CounterNumbers : addCounterFind(p, number)
  \/ Setup
  \/ EarlyTick
  \/ NoSetup /\ \E p \in Procs, counterId \in {0} \cup CounterIds : callNextGet(p, counterId)
  \/ \E p \in Procs : callNextAssign(p)
  \/ NoSetup /\ \E tokenNumber \in TokenCodes : completeTokenCall(tokenNumber)

Spec == Init /\ [][Next]_vars

\* The service methods called one after the other, as the property tests call them.
NextDirect ==
  \/ QuietQueue /\ \E p \in Procs, serviceType \in Categories : generateTokenStart(p, serviceType)
  \/ QuietCounters /\ \E p \in Procs, number \in CounterNumbers : addCounterFind(p, number)
  \/ Setup
  \/ EarlyTick
  \/ Quiet /\ \E tokenNumber \in TokenCodes, counterId \in CounterIds :
       assignTokenToCounterCall(tokenNumber, counterId)
  \/ Quiet /\ \E tokenNumber \in TokenCodes : completeTokenCall(tokenNumber)

SpecDirect == Init /\ [][NextDirect]_vars

\* Concurrent assignments that check the counter first: CounterService.assignCounter
\* and tryAssignWaitingToken, on tokens that are not completed meanwhile (and within
\* one clock tick).
NextAssign ==
  \/ QuietQueue /\ \E p \in Procs, serviceType \in Categories : generateTokenStart(p, serviceType)
  \/ QuietCounters /\ \E p \in Procs, number \in CounterNumbers : addCounterFind(p, number)
  \/ Setup
  \/ NoSetup /\ \E p \in Procs, tokenNumber \in TokenCodes, counterId \in CounterIds :
       assignCounterCheck(p, counterId, tokenNumber)
  \/ \E p \in Procs : assignCounterAssign(p)
  \/ NoSetup /\ \E p \in Procs, counterId \in {0} \cup CounterIds :
       tryAssignWaitingTokenCall(p, counterId)

SpecAssign == Init /\ [][NextAssign]_vars

\* Counter status changes against assignments, on tokens that are not completed
\* meanwhile (and within one clock tick).
NextCounter ==
  \/ QuietQueue /\ \E p \in Procs, serviceType \in Categories : generateTokenStart(p, serviceType)
  \/ QuietCounters /\ \E p \in Procs, number \in CounterNumbers : addCounterFind(p, number)
  \/ Setup
  \/ NoSetup /\ \E p \in Procs, counterId \in CounterIds : callNextGet(p, counterId)
  \/ \E p \in Procs : callNextAssign(p)
  \/ NoSetup /\ \E p \in Procs, tokenNumber \in TokenCodes, counterId \in CounterIds :
       assignCounterCheck(p, counterId, tokenNumber)
  \/ \E p \in Procs : assignCounterAssign(p)
  \/ NoSetup /\ \E p \in Procs, counterId \in CounterIds : activateCounter(p, counterId)
  \/ NoSetup /\ \E p \in Procs, counterId \in CounterIds : deactivateCounterCount(p, counterId)
  \/ \E p \in Procs : deactivateCounterUpdate(p)

SpecCounter == Init /\ [][NextCounter]_vars

\* Deactivations against the routes that put tokens in service and complete them
\* (within one clock tick).
NextStatus ==
  \/ QuietQueue /\ \E p \in Procs, serviceType \in Categories : generateTokenStart(p, serviceType)
  \/ QuietCounters /\ \E p \in Procs, number \in CounterNumbers : addCounterFind(p, number)
  \/ Setup
  \/ NoSetup /\ \E p \in Procs, counterId \in CounterIds : callNextGet(p, counterId)
  \/ \E p \in Procs : callNextAssign(p)
  \/ NoSetup /\ \E tokenNumber \in TokenCodes : completeTokenCall(tokenNumber)
  \/ NoSetup /\ \E p \in Procs, counterId \in CounterIds : deactivateCounterCount(p, counterId)
  \/ \E p \in Procs : deactivateCounterUpdate(p)

SpecStatus == Init /\ [][NextStatus]_vars

\* The queue as position and wait-time queries see it: requests that run one after
\* the other, before and after a clock tick.
NextQueue ==
  \/ Quiet /\ \E p \in Procs, serviceType \in Categories : generateTokenStart(p, serviceType)
  \/ QuietCounters /\ \E p \in Procs, number \in CounterNumbers : addCounterFind(p, number)
  \/ Setup
  \/ Quiet /\ EarlyTick
  \/ Quiet /\ \E p \in Procs, counterId \in CounterIds : callNextGet(p, counterId)
  \/ \E p \in Procs : callNextAssign(p)
  \/ Quiet /\ \E tokenNumber \in TokenCodes : completeTokenCall(tokenNumber)

SpecQueue == Init /\ [][NextQueue]_vars

\* The wait-time estimator over several days: requests that run one after the other
\* while the clock runs to its bound.
NextWindow ==
  \/ QuietQueue /\ \E p \in Procs, serviceType \in Categories : generateTokenStart(p, serviceType)
  \/ QuietCounters /\ \E p \in Procs, number \in CounterNumbers : addCounterFind(p, number)
  \/ Setup
  \/ Quiet /\ Tick
  \/ Quiet /\ \E p \in Procs, counterId \in CounterIds : callNextGet(p, counterId)
  \/ \E p \in Procs : callNextAssign(p)
  \/ Quiet /\ \E tokenNumber \in TokenCodes : completeTokenCall(tokenNumber)

SpecWindow == Init /\ [][NextWindow]_vars

\* Token creation by either door: POST /tokens with any body, and
\* QueueManager.generateToken called with any string.
NextCategory ==
  \/ generateToken
  \/ \E p \in Procs, serviceType \in Categories \cup {"", InvalidService} :
       postTokens(p, serviceType)
  \/ \E p \in Procs : generateTokenStart(p, InvalidService)

SpecCategory == Init /\ [][NextCategory]_vars

\* the store after n creations of one category that ran one after the other at
\* clock reading t on an empty store
Issued(serviceType, n, t) ==
  [j \in 1..n |->
     [tokenNumber |-> FormatTokenNumber(getServicePrefix(serviceType), j),
      serviceType |-> serviceType, status |-> WAITING, queuePosition |-> j,
      counterId |-> Null, createdAt |-> t, calledAt |-> Null, completedAt |-> Null]]

\* a creation of the category that has read the day window and is about to count
Begun(serviceType) ==
  [Idle EXCEPT !.op = "generateToken", !.pc = "gt_count", !.serviceType = serviceType,
               !.todayStart = todayStartOf(now), !.todayEnd = todayEndOf(now)]

\* The token code as a function of the number of tokens issued before it: any number
\* of tokens of a category (up to the bound) was issued today, and one more creation
\* runs to its end.
InitIssued ==
  /\ now = 1
  /\ \E serviceType \in Categories, n \in 0..MaxIssued :
       /\ tokens = Issued(serviceType, n, now)
       /\ procs = [p \in Procs |-> IF p = 1 THEN Begun(serviceType) ELSE Idle]
  /\ counters = <<>>
  /\ last = NoResp
  /\ api = ApiInit

NextFormat ==
  \/ \E p \in Procs : generateTokenCount(p)
  \/ \E p \in Procs : generateTokenFind(p)
  \/ \E p \in Procs : generateTokenPosition(p)
  \/ \E p \in Procs : generateTokenCreate(p)
  \/ \E p \in Procs : generateTokenReturn(p)

SpecFormat == InitIssued /\ [][NextFormat]_vars

\* Registrations that run concurrently with each other, query by query, next to
\* token creations.
NextRegister ==
  \/ QuietQueue /\ \E p \in Procs, serviceType \in Categories : generateTokenStart(p, serviceType)
  \/ Len(counters) <= MaxCounters /\ \E p \in Procs, number \in CounterNumbers :
       addCounterFind(p, number)
  \/ Setup

SpecRegister == Init /\ [][NextRegister]_vars

\* Requests that name tokens and counters that may not exist, one after the other:
\* the two service methods called directly, and the two routes that call them.
NextAnswer ==
  \/ QuietQueue /\ \E p \in Procs, serviceType \in Categories : generateTokenStart(p, serviceType)
  \/ QuietCounters /\ \E p \in Procs, number \in CounterNumbers : addCounterFind(p, number)
  \/ Setup
  \/ Quiet /\ \E tokenNumber \in TokenCodes, counterId \in CounterIds :
       assignTokenToCounterCall(tokenNumber, counterId)
  \/ Quiet /\ \E tokenNumber \in TokenCodes : completeTokenCall(tokenNumber)
  \/ Quiet /\ \E p \in Procs, counterId \in CounterIds : callNextGet(p, counterId)
  \/ \E p \in Procs : callNextAssign(p)
  \/ Quiet /\ \E tokenNumber \in TokenCodes : postComplete(tokenNumber)

SpecAnswer == Init /\ [][NextAnswer]_vars

\* The store as the statistics see it: creations, registrations, calls of the next
\* token, completions and counter status changes that run one after the other,
\* before and after midnight.
NextStats ==
  \/ QuietQueue /\ \E p \in Procs, serviceType \in Categories : generateTokenStart(p, serviceType)
  \/ QuietCounters /\ \E p \in Procs, number \in CounterNumbers : addCounterFind(p, number)
  \/ Setup
  \/ Quiet /\ EarlyTick
  \/ Quiet /\ \E p \in Procs, counterId \in CounterIds : callNextGet(p, counterId)
  \/ \E p \in Procs : callNextAssign(p)
  \/ Quiet /\ \E tokenNumber \in TokenCodes : completeTokenCall(tokenNumber)
  \/ Quiet /\ \E p \in Procs, counterId \in CounterIds : activateCounter(p, counterId)
  \/ Quiet /\ \E p \in Procs, counterId \in CounterIds : deactivateCounterCount(p, counterId)
  \/ \E p \in Procs : deactivateCounterUpdate(p)

SpecStats == Init /\ [][NextStats]_vars

\* a creation that begins in a store of any size up to MaxStore rows
generateTokenAgain(p, serviceType) ==
  /\ Slot(p)
  /\ Len(tokens) < MaxStore
  /\ Continue(p, Begun(serviceType))
  /\ UNCHANGED <<store, api>>

\* The retry loop over codes that exist: MinPrior to MaxPrior tokens of one category
\* were issued on the first day, and further creations run one after the other on
\* that day and on the next.
InitPrior ==
  /\ now = 1
  /\ \E serviceType \in Categories, n \in MinPrior..MaxPrior :
       tokens = Issued(serviceType, n, now)
  /\ counters = <<>>
  /\ procs = [p \in Procs |-> Idle]
  /\ last = NoResp
  /\ api = ApiInit

NextRetry ==
  \/ Quiet /\ \E p \in Procs, serviceType \in Categories : generateTokenAgain(p, serviceType)
  \/ \E p \in Procs : generateTokenCount(p)
  \/ \E p \in Procs : generateTokenFind(p)
  \/ \E p \in Procs : generateTokenPosition(p)
  \/ \E p \in Procs : generateTokenCreate(p)
  \/ \E p \in Procs : generateTokenReturn(p)
  \/ Quiet /\ EarlyTick

SpecRetry == InitPrior /\ [][NextRetry]_vars

\* Automatic assignment with two counters: creations, registrations, deactivations
\* and direct calls of tryAssignWaitingToken that run one after the other.
NextTryAssign ==
  \/ QuietQueue /\ \E p \in Procs, serviceType \in Categories : generateTokenStart(p, serviceType)
  \/ Quiet /\ Len(counters) <= MaxCounters /\ \E p \in Procs, number \in CounterNumbers :
       addCounterFind(p, number)
  \/ Setup
  \/ Quiet /\ \E p \in Procs, counterId \in {0} \cup CounterIds :
       tryAssignWaitingTokenCall(p, counterId)
  \/ Quiet /\ \E p \in Procs, counterId \in CounterIds : deactivateCounterCount(p, counterId)
  \/ \E p \in Procs : deactivateCounterUpdate(p)

SpecTryAssign == Init /\ [][NextTryAssign]_vars

\* The routes that emit notifications, one request after the other: POST /tokens,
\* POST /counters, PATCH /counters/:id/status, POST /tokens/call-next and
\* POST /tokens/:tokenNumber/complete.
NextNotify ==
  \/ QuietQueue /\ \E p \in Procs, serviceType \in Categories \cup {InvalidService} :
       postTokens(p, serviceType)
  \/ QuietCounters /\ \E p \in Procs, number \in CounterNumbers : addCounterFind(p, number)
  \/ Setup
  \/ Quiet /\ \E p \in Procs, counterId \in CounterIds : callNextGet(p, counterId)
  \/ \E p \in Procs : callNextAssign(p)
  \/ Quiet /\ \E tokenNumber \in TokenCodes : postComplete(tokenNumber)
  \/ Quiet /\ \E p \in Procs, counterId \in CounterIds : activateCounter(p, counterId)
  \/ Quiet /\ \E p \in Procs, counterId \in CounterIds : deactivateCounterCount(p, counterId)
  \/ \E p \in Procs : deactivateCounterUpdate(p)

SpecNotify == Init /\ [][NextNotify]_vars

\* Staff at two counters: call-next requests that run concurrently, query by query,
\* on tokens and counters that were created one after the other.
NextCallNext ==
  \/ QuietQueue /\ \E p \in Procs, serviceType \in Categories : generateTokenStart(p, serviceType)
  \/ Quiet /\ Len(counters) <= MaxCounters /\ \E p \in Procs, number \in CounterNumbers :
       addCounterFind(p, number)
  \/ Setup
  \/ NoSetup /\ \E p \in Procs, counterId \in CounterIds : callNextGet(p, counterId)
  \/ \E p \in Procs : callNextAssign(p)

SpecCallNext == Init /\ [][NextCallNext]_vars

\* The same routes with a notification step that may throw.
NextFault ==
  \/ NextNotify
  \/ \E p \in Procs : callNextEmitFails(p)
  \/ Quiet /\ \E tokenNumber \in TokenCodes : postCompleteEmitFails(tokenNumber)
  \/ \E p \in Procs : postTokensEmitFails(p)

SpecFault == Init /\ [][NextFault]_vars

\* Deletions of counters against the call-next requests that put tokens in service,
\* query by query.
NextDelete ==
  \/ QuietQueue /\ \E p \in Procs, serviceType \in Categories : generateTokenStart(p, serviceType)
  \/ QuietCounters /\ \E p \in Procs, number \in CounterNumbers : addCounterFind(p, number)
  \/ Setup
  \/ NoSetup /\ \E p \in Procs, counterId \in CounterIds : callNextGet(p, counterId)
  \/ \E p \in Procs : callNextAssign(p)
  \/ NoSetup /\ \E p \in Procs, counterId \in CounterIds : deleteCounterCount(p, counterId)
  \/ \E p \in Procs : deleteCounterDelete(p)

SpecDelete == Init /\ [][NextDelete]_vars

\* The client alone: MaxRequests calls of request() at a time, against a server that
\* answers, fails, or is not reached
NextBreaker ==
  \/ \E r \in Requests : request(r)
  \/ \E r \in Requests : requestRetry(r)
  \/ \E r \in Requests, o \in Outcomes : fetchReturns(r, o)
  \/ clientTick

SpecBreaker == Init /\ [][NextBreaker]_vars

(* ============================== claims ================================ *)
TokensOf(serviceType) == {i \in TokenIds : tokens[i].serviceType = serviceType}
DayOf(i) == todayStartOf(tokens[i].createdAt)
Failed(op) == last.op = op /\ ~last.ok
Succeeded(op) == last.op = op /\ last.ok

\* C1: whatever the interleaving of concurrent generateToken calls, no two tokens
\* of the store carry the same tokenNumber.
C1_UniqueTokenNumbers ==
  \A i, j \in TokenIds : i # j => tokens[i].tokenNumber # tokens[j].tokenNumber

\* two calls raced on one candidate code: one inserted it, the other was refused
C1_Witness ==
  /\ Len(tokens) >= 2
  /\ Failed("generateToken")
  /\ last.error = "Unique constraint failed on tokenNumber"
  /\ findUnique(last.tokenNumber) # {}

\* C2: from the empty store, the tokens of one category carry exactly the sequence
\* numbers 1..N, and the k-th token inserted for the category carries number k,
\* whatever is generated for other categories in between.
C2_SequentialNumbers ==
  \A c \in Categories :
    /\ {SequenceNumber(tokens[i].tokenNumber) : i \in TokensOf(c)}
         = 1..Cardinality(TokensOf(c))
    /\ \A i \in TokensOf(c) :
         SequenceNumber(tokens[i].tokenNumber)
           = Cardinality({j \in TokensOf(c) : j <= i})

\* a category numbered across a day change, with another category in between
C2_Witness ==
  \E i, j, k \in TokenIds :
    /\ i < j /\ j < k
    /\ tokens[i].serviceType = tokens[k].serviceType
    /\ tokens[j].serviceType # tokens[i].serviceType
    /\ DayOf(i) # DayOf(k)
    /\ SequenceNumber(tokens[k].tokenNumber) = 2


\* the step in which slot p ran getNextToken and got a token / got null
GotNextToken(p) ==
  \/ procs[p].pc = "idle" /\ procs'[p].pc = "cn_assign"
  \/ procs[p].pc = "ta_next" /\ procs'[p].pc = "ta_counter"
GotNoToken(p) ==
  \/ procs[p].pc = "idle" /\ procs'[p].pc = "idle" /\ last' # last
       /\ last'.error = "No tokens in queue"
  \/ procs[p].pc = "ta_next" /\ procs'[p].pc = "idle"

Earliest(i) ==
  /\ i \in WaitingIds
  /\ \A j \in WaitingIds : tokens[i].createdAt <= tokens[j].createdAt

\* C3: whatever creations, assignments and completions came before, getNextToken
\* returns a Waiting token such that no Waiting token of any category has an earlier
\* createdAt, and it returns null exactly when no token is Waiting.
C3_NextTokenIsEarliest ==
  [][\A p \in Procs :
       /\ GotNextToken(p) => Earliest(procs'[p].nextToken)
       /\ GotNoToken(p) => WaitingIds = {}]_vars

\* call-next holds the earlier of two Waiting tokens of different categories that
\* were created at different times
C3_Witness ==
  \E p \in Procs :
    /\ procs[p].pc = "cn_assign"
    /\ procs[p].nextToken \in WaitingIds
    /\ \E j \in WaitingIds :
         /\ tokens[j].createdAt > tokens[procs[p].nextToken].createdAt
         /\ tokens[j].serviceType # tokens[procs[p].nextToken].serviceType

\* C4: of two Waiting tokens with the same createdAt, getNextToken returns the one
\* inserted first (the lower id): while a request holds the token it was given, no
\* token that is still Waiting has the same createdAt and a lower id.
C4_TieBrokenByInsertion ==
  \A p \in Procs :
    procs[p].pc \in {"cn_assign", "ta_counter", "ta_assign"} =>
      \A j \in WaitingIds :
        tokens[j].createdAt = tokens[procs[p].nextToken].createdAt
          => procs[p].nextToken <= j

\* C5: no counter is referenced by two Serving tokens.
C5_OneServingPerCounter ==
  \A c \in CounterRows : Cardinality(ServingTokens(c)) <= 1

\* C6: of two assignments that check the counter first (assignCounter,
\* tryAssignWaitingToken) and race for one idle counter, at most one sets its token
\* to Serving there: no two distinct tokens are Serving on the same counter.
C6_RaceHasOneWinner ==
  \A i, j \in TokenIds :
    (i # j /\ tokens[i].status = SERVING /\ tokens[j].status = SERVING)
      => tokens[i].counterId # tokens[j].counterId

\* C7: no Serving token references a counter whose status is Inactive.
C7_NoServingOnInactive ==
  \A i \in TokenIds :
    (tokens[i].status = SERVING /\ tokens[i].counterId \in CounterRows)
      => counters[tokens[i].counterId].status # INACTIVE

\* the step is a finished call of op on the code of token i
Answered(op, i) ==
  last' # last /\ last'.op = op /\ last'.tokenNumber = tokens[i].tokenNumber

\* C8: assignTokenToCounter on a token that is Serving or Completed fails and leaves
\* the token as it was: a call that succeeds, and a step that writes a Serving
\* token, both start from a Waiting token.
C8_AssignOnlyFromWaiting ==
  [][\A i \in TokenIds :
       /\ (Answered("assignTokenToCounter", i) /\ last'.ok) => tokens[i].status = WAITING
       /\ (tokens'[i] # tokens[i] /\ tokens'[i].status = SERVING)
            => tokens[i].status = WAITING]_vars

\* C9: completeToken on a token that is not Serving fails and leaves it as it was: a
\* call that succeeds, and a step that writes a Completed token, both start from a
\* Serving token.
C9_CompleteOnlyFromServing ==
  [][\A i \in TokenIds :
       /\ (Answered("completeToken", i) /\ last'.ok) => tokens[i].status = SERVING
       /\ (tokens'[i] # tokens[i] /\ tokens'[i].status = COMPLETED)
            => tokens[i].status = SERVING]_vars

\* C10: after a successful assignTokenToCounter the token is Serving on the given
\* counter with calledAt set, and getTokenDetails reports SERVING and the number of
\* that counter.
C10_AssignmentReported ==
  (last.op = "assignTokenToCounter" /\ last.ok) =>
    \A i \in findUnique(last.tokenNumber) :
      /\ tokens[i].status = SERVING
      /\ tokens[i].counterId = last.counterId
      /\ tokens[i].calledAt # Null
      /\ getTokenDetails(last.tokenNumber)[1].status = SERVING
      /\ getTokenDetails(last.tokenNumber)[1].counter
           = <<counters[last.counterId].number>>

\* C11: a completeToken that succeeds on a Serving token leaves it Completed with
\* completedAt set and no counter, and the counter it was on, if Active, then has no
\* Serving token and is among getAvailableCounters.
C11_CompletionFreesCounter ==
  [][\A i \in TokenIds :
       (Answered("completeToken", i) /\ last'.ok /\ tokens[i].status = SERVING) =>
         /\ tokens'[i].status = COMPLETED
         /\ tokens'[i].completedAt # Null
         /\ tokens'[i].counterId = Null
         /\ \A c \in CounterRows :
              (c = tokens[i].counterId /\ counters[c].status = ACTIVE)
                => /\ ServingTokens(c)' = {}
                   /\ c \in getAvailableCounters']_vars

\* C12: in every step, call-next and complete requests interleaved as they may be,
\* each token keeps its state or moves Waiting to Serving or Serving to Completed.
C12_StatesMoveForward ==
  [][\A i \in TokenIds :
       \/ tokens'[i].status = tokens[i].status
       \/ tokens[i].status = WAITING /\ tokens'[i].status = SERVING
       \/ tokens[i].status = SERVING /\ tokens'[i].status = COMPLETED]_vars

\* C13: in every reachable state a token that references a counter is Serving, and a
\* Completed token references no counter.
C13_CounterRefMatchesState ==
  \A i \in TokenIds :
    /\ tokens[i].counterId # Null => tokens[i].status = SERVING
    /\ tokens[i].status = COMPLETED => tokens[i].counterId = Null

\* one token was served and completed, another is in service on a counter
C13_Witness ==
  \E i, j \in TokenIds :
    /\ tokens[i].status = COMPLETED /\ tokens[i].calledAt # Null
    /\ tokens[j].status = SERVING /\ tokens[j].counterId \in CounterRows

\* the step in which a deactivateCounter call was refused / passed its count of the
\* Serving tokens / wrote the status
DeactivationRefused ==
  /\ last' # last /\ last'.op = "deactivateCounter"
  /\ last'.error = "Cannot deactivate counter with active tokens"
DeactivationPassed(p) == procs[p].pc = "idle" /\ procs'[p].pc = "dc_update"
DeactivationDone(p) ==
  procs[p].pc = "dc_update" /\ procs'[p].pc = "idle" /\ last'.ok

\* C14: a deactivation is refused exactly while a Serving token references the
\* counter, and then changes neither the counter nor any token; once the Serving
\* token of a counter is completed the deactivation is refused no longer, and a
\* deactivation that goes through leaves the counter Inactive.
C14_DeactivationRefusedWhileServing ==
  [][/\ DeactivationRefused =>
          /\ ServingTokens(last'.counterId) # {}
          /\ UNCHANGED <<tokens, counters>>
     /\ \A p \in Procs :
          /\ DeactivationPassed(p) => ServingTokens(procs'[p].counterId) = {}
          /\ DeactivationDone(p) => counters'[procs[p].counterId].status = INACTIVE
     /\ \A i \in TokenIds :
          (Answered("completeToken", i) /\ last'.ok /\ tokens[i].status = SERVING)
            => \A c \in CounterRows :
                 c = tokens[i].counterId => ServingTokens(c)' = {}]_vars

\* the Waiting tokens of the category of token i that were created strictly before it
WaitingBefore(i) ==
  {j \in TokenIds : /\ tokens[j].status = WAITING
                    /\ tokens[j].serviceType = tokens[i].serviceType
                    /\ tokens[j].createdAt < tokens[i].createdAt}

\* C15: calculateQueuePosition is 0 for a code that no token carries and for a token
\* that is not Waiting; for a Waiting token it is one plus the number of Waiting
\* tokens of its category created strictly before it, in the current state.
C15_PositionCountsEarlierWaiting ==
  /\ calculateQueuePosition(UnknownCode) = 0
  /\ \A i \in TokenIds :
       calculateQueuePosition(tokens[i].tokenNumber)
         = IF tokens[i].status = WAITING THEN Cardinality(WaitingBefore(i)) + 1 ELSE 0

\* a Waiting token at position 2 behind a Waiting token of its category, with an
\* earlier token of the category that has left Waiting and one created with it
C15_Witness ==
  \E i, j, k \in TokenIds :
    /\ tokens[i].status = WAITING /\ j \in WaitingBefore(i)
    /\ tokens[k].serviceType = tokens[i].serviceType
    /\ tokens[k].status # WAITING /\ tokens[k].createdAt < tokens[i].createdAt
    /\ calculateQueuePosition(tokens[i].tokenNumber) = 2
    /\ calculateQueuePosition(tokens[k].tokenNumber) = 0

\* no token has been assigned or completed
OnlyGenerated ==
  \A i \in TokenIds : /\ tokens[i].status = WAITING
                      /\ tokens[i].calledAt = Null /\ tokens[i].completedAt = Null

\* C16: after generateToken calls that run one after the other, with no assignment or
\* completion in between, calculateQueuePosition of every generated token is
\* positive and equal to the queuePosition generateToken returned for it (the
\* stored queuePosition, or 1).
C16_ReturnedPositionIsLive ==
  OnlyGenerated =>
    \A i \in TokenIds :
      /\ calculateQueuePosition(tokens[i].tokenNumber) > 0
      /\ calculateQueuePosition(tokens[i].tokenNumber) = OrOne(tokens[i].queuePosition)

\* C17: for a Waiting token T, a step in which a token of T's category created
\* before T leaves Waiting lowers calculateQueuePosition(T) by exactly one; no step
\* raises it while T stays Waiting; the step in which T leaves Waiting makes it 0.
C17_PositionOnlyDecreases ==
  [][\A i \in TokenIds : \A code \in TokenCodes :
       (code = tokens[i].tokenNumber /\ tokens[i].status = WAITING) =>
         IF tokens'[i].status = WAITING
           THEN /\ calculateQueuePosition(code)' <= calculateQueuePosition(code)
                /\ \A j \in WaitingBefore(i) :
                     tokens'[j].status # WAITING =>
                       calculateQueuePosition(code)' = calculateQueuePosition(code) - 1
           ELSE calculateQueuePosition(code)' = 0]_vars

\* a Waiting token that was created at position 2 stands at position 1, the token
\* before it having left Waiting
C17_Witness ==
  \E i, j \in TokenIds :
    /\ tokens[i].status = WAITING /\ tokens[i].queuePosition = 2
    /\ calculateQueuePosition(tokens[i].tokenNumber) = 1
    /\ tokens[j].serviceType = tokens[i].serviceType
    /\ tokens[j].createdAt < tokens[i].createdAt
    /\ tokens[j].status # WAITING

\* C18: getTokenDetails reports the position recomputed from the current state: for
\* a Waiting token the queuePosition it reports is calculateQueuePosition in that
\* state, for a Serving or Completed token it reports position 0 and estimate 0.
C18_DetailsReportLivePosition ==
  \A i \in TokenIds :
    LET details == getTokenDetails(tokens[i].tokenNumber)[1] IN
    IF tokens[i].status = WAITING
      THEN details.queuePosition = calculateQueuePosition(tokens[i].tokenNumber)
      ELSE details.queuePosition = 0 /\ details.estimatedWaitTime = 0

\* the reported position of a Waiting token differs from its stored queuePosition,
\* and a token that left Waiting still stores a queuePosition
C18_Witness ==
  \E i, j \in TokenIds :
    /\ tokens[i].status = WAITING
    /\ getTokenDetails(tokens[i].tokenNumber)[1].queuePosition # tokens[i].queuePosition
    /\ tokens[j].status # WAITING /\ tokens[j].queuePosition > 0
    /\ getTokenDetails(tokens[j].tokenNumber)[1].queuePosition = 0

\* the completed tokens that enter the average, and their service times in ms
Qualifying ==
  {i \in TokenIds : /\ tokens[i].status = COMPLETED
                    /\ tokens[i].calledAt # Null /\ tokens[i].completedAt # Null
                    /\ tokens[i].createdAt >= now - DayLen}
TotalServiceMs == SumServiceTime(Qualifying)

\* C19: whatever tokens have been completed, estimateWaitTime(p) is at least 0 for
\* every position p >= 0 and is 0 for p = 1.
C19_EstimateNonNegative ==
  /\ \A p \in 0..MaxPosition : estimateWaitTime(p) >= 0
  /\ estimateWaitTime(1) = 0

\* completed tokens with a positive service time enter the average, and the
\* estimate is positive behind position 1 and 0 at positions 0 and 1
C19_Witness ==
  /\ Qualifying # {} /\ TotalServiceMs > 0
  /\ estimateWaitTime(2) > 0
  /\ estimateWaitTime(0) = 0 /\ estimateWaitTime(1) = 0

\* C20: estimateWaitTime(p) = max(0, (p - 1) * avg), where avg is 5 when no
\* completed token qualifies and otherwise the mean service time of the qualifying
\* tokens in minutes, raised to 2 when that mean is below 2.  The mean is
\* TotalServiceMs / (n * MsPerMinute); the equation is stated multiplied out.
C20_EstimateIsPositionTimesMean ==
  LET n == Cardinality(Qualifying) IN
  \A p \in 0..MaxPosition :
    IF n = 0
      THEN estimateWaitTime(p) = Max(0, (p - 1) * DefaultServiceTime)
    ELSE IF TotalServiceMs < MinServiceTime * n * MsPerMinute
      THEN estimateWaitTime(p) = Max(0, (p - 1) * MinServiceTime)
    ELSE estimateWaitTime(p) * n * MsPerMinute = Max(0, (p - 1) * TotalServiceMs)

\* C20, amended: avg is 5 when no completed token qualifies and otherwise the mean
\* service time in minutes rounded to the nearest whole minute (halves up), raised
\* to 2 when the rounded mean is below 2: the whole number r with
\* r <= mean + 1/2 < r + 1.
C20_EstimateIsPositionTimesRoundedMean ==
  LET n == Cardinality(Qualifying)
      d == n * MsPerMinute IN
  \A p \in 0..MaxPosition :
    IF n = 0
      THEN estimateWaitTime(p) = Max(0, (p - 1) * DefaultServiceTime)
      ELSE \E r \in 0..(TotalServiceMs \div MsPerMinute + 1) :
             /\ 2 * r * d <= 2 * TotalServiceMs + d
             /\ 2 * TotalServiceMs + d < 2 * (r + 1) * d
             /\ estimateWaitTime(p) = Max(0, (p - 1) * Max(r, MinServiceTime))

\* the mean service time of the qualifying tokens is at least 2 minutes and not a
\* whole number of minutes, and the estimate at position 3 is more than twice the mean
C20_Witness ==
  LET n == Cardinality(Qualifying) IN
  /\ n > 0
  /\ TotalServiceMs >= MinServiceTime * n * MsPerMinute
  /\ TotalServiceMs % (n * MsPerMinute) # 0
  /\ estimateWaitTime(3) * n * MsPerMinute > 2 * TotalServiceMs

\* the COMPLETED tokens with both timestamps whose completedAt lies in the trailing
\* 24 hours
CompletedInWindow ==
  {i \in TokenIds : /\ tokens[i].status = COMPLETED
                    /\ tokens[i].calledAt # Null
                    /\ tokens[i].completedAt # Null
                    /\ tokens[i].completedAt >= now - DayLen}

\* C21: the tokens that enter the average service time are exactly the tokens
\* completed within the trailing 24 hours that have calledAt and completedAt set,
\* whenever they were created.
C21_WindowIsOnCompletion == completedTokens = CompletedInWindow

\* a token created more than 24 hours ago and completed within the last 24 hours
C21_OldTokenCompletedRecently ==
  \E i \in CompletedInWindow : tokens[i].createdAt < now - DayLen

\* C22: no token is ever created for a category outside the four fixed ones, whether
\* the call comes through POST /tokens or goes to QueueManager.generateToken directly.
C22_NoTokenOfUnknownCategory ==
  \A i \in TokenIds : tokens[i].serviceType \in validServiceTypes

\* POST /tokens with a category outside the four has just been refused
C22_RouteRefused == Failed("postTokens") /\ last.error = "Invalid service type"

Digits == {"0", "1", "2", "3", "4", "5", "6", "7", "8", "9"}

\* C23: every token created by generateToken is Waiting with no counter, and its code
\* is the prefix letter of its category, a hyphen and exactly three digits, however
\* many tokens were issued before it.
C23_NewTokenWellFormed ==
  \A i \in TokenIds :
    LET t == tokens[i] IN
      /\ t.status = WAITING
      /\ t.counterId = Null
      /\ Len(t.tokenNumber) = 2 + PadWidth
      /\ t.tokenNumber[1] = getServicePrefix(t.serviceType)
      /\ t.tokenNumber[2] = "-"
      /\ \A k \in 3..Len(t.tokenNumber) : t.tokenNumber[k] \in Digits

\* C24: a registration (outside the test environment) of a number that is in use is
\* refused as a duplicate and leaves the counters as they are, and after every step,
\* concurrent registrations of one number included, no two counters share a number.
C24_CounterNumbersUnique ==
  [][/\ \A p \in Procs, number \in CounterNumbers :
          addCounterFind(p, number) /\ findCounterByNumber(number) # {}
            => /\ last'.op = "addCounter" /\ ~last'.ok
               /\ last'.error = "Counter already exists"
               /\ counters' = counters
     /\ \A c, d \in DOMAIN counters' :
          c # d => counters'[c].number # counters'[d].number]_vars

\* a registration of a number in use has just been refused
C24_Witness ==
  /\ Failed("addCounter") /\ last.error = "Counter already exists"
  /\ counters # <<>>

\* of two registrations of one number that ran together, the second insert was refused
C24_RaceLost ==
  /\ Failed("addCounter") /\ last.error = "Unique constraint failed on number"
  /\ counters # <<>>

\* the step is refused and writes nothing
RefusedUnchanged == ~last'.ok /\ tokens' = tokens /\ counters' = counters

\* C25: an assignment or a completion that names a token code (or a counter id) that
\* does not exist fails and changes no token and no counter, and the route that made
\* the call answers with status 404.
C25_MissingIsNotFound ==
  [][/\ \A tokenNumber \in TokenCodes, counterId \in CounterIds :
          /\ assignTokenToCounterCall(tokenNumber, counterId)
          /\ (findUnique(tokenNumber) = {} \/ counterId \notin CounterRows)
          => RefusedUnchanged
     /\ \A tokenNumber \in TokenCodes :
          completeTokenCall(tokenNumber) /\ findUnique(tokenNumber) = {}
            => RefusedUnchanged /\ last'.error = "Record to update not found"
     /\ \A tokenNumber \in TokenCodes :
          postComplete(tokenNumber) /\ findUnique(tokenNumber) = {}
            => RefusedUnchanged /\ statusCode(last') = 404
     /\ \A p \in Procs :
          callNextAssign(p) /\ procs[p].counterId \notin CounterRows
            => RefusedUnchanged /\ statusCode(last') = 404]_vars

\* the same without the status: the methods and the routes refuse and write nothing
C25_MissingIsRefused ==
  [][/\ \A tokenNumber \in TokenCodes, counterId \in CounterIds :
          /\ assignTokenToCounterCall(tokenNumber, counterId)
          /\ (findUnique(tokenNumber) = {} \/ counterId \notin CounterRows)
          => RefusedUnchanged
     /\ \A tokenNumber \in TokenCodes :
          (completeTokenCall(tokenNumber) \/ postComplete(tokenNumber))
          /\ findUnique(tokenNumber) = {}
            => RefusedUnchanged
     /\ \A p \in Procs :
          callNextAssign(p) /\ procs[p].counterId \notin CounterRows
            => RefusedUnchanged]_vars

\* C26: completeToken on a token that is already COMPLETED fails and writes nothing:
\* the token's status, counterId and completedAt are after the call what they were.
C26_CompletedRetryIsNoOp ==
  [][\A i \in TokenIds :
       completeTokenCall(tokens[i].tokenNumber) /\ tokens[i].status = COMPLETED
         => /\ ~last'.ok
            /\ tokens'[i].status = tokens[i].status
            /\ tokens'[i].counterId = tokens[i].counterId
            /\ tokens'[i].completedAt = tokens[i].completedAt]_vars

\* C27: whenever no request is in flight, getQueueStatistics reports totalTokensToday
\* equal to the number of tokens created on the current day, tokensInQueue equal to
\* the number of Waiting tokens, and activeCounters and inactiveCounters equal to the
\* numbers of counters of each status.
C27_StatisticsCountTheStore ==
  Quiet =>
    /\ getQueueStatistics.totalTokensToday =
         Cardinality({i \in TokenIds : DayOf(i) = todayStartOf(now)})
    /\ getQueueStatistics.tokensInQueue = Cardinality(WaitingIds)
    /\ getQueueStatistics.activeCounters + getQueueStatistics.inactiveCounters
         = Len(counters)
    /\ getQueueStatistics.activeCounters =
         Cardinality({c \in CounterRows : counters[c].status # INACTIVE})
    /\ getQueueStatistics.inactiveCounters =
         Cardinality({c \in CounterRows : counters[c].status # ACTIVE})

\* one token of yesterday and one of today, one of them waiting, and a counter that
\* was deactivated
C27_Witness ==
  /\ Quiet
  /\ Len(tokens) = 2
  /\ getQueueStatistics.totalTokensToday = 1
  /\ getQueueStatistics.tokensInQueue = 1
  /\ getQueueStatistics.inactiveCounters = 1

\* the j-th candidate of a creation that counted n tokens: the code of number n + j
CandidateCode(serviceType, n, j) ==
  FormatTokenNumber(getServicePrefix(serviceType), n + j)

\* the candidates among the ten whose code is in no row
FreeCandidates(serviceType, n) ==
  {j \in 1..maxAttempts : findUnique(CandidateCode(serviceType, n, j)) = {}}

\* C28: a creation that counted n tokens of its category for the day tries the
\* numbers n+1, n+2, ... in order and takes the first whose code is in no row; it
\* fails as exhausted only when the codes of n+1 .. n+10 all exist, and then it
\* inserts nothing.
C28_FirstFreeCandidateOfTen ==
  [][\A p \in Procs :
       generateTokenFind(p) =>
         LET r == procs[p]
             free == FreeCandidates(r.serviceType, r.todayTokens) IN
           /\ procs'[p].pc = "gt_find" =>
                /\ procs'[p].attempts = r.attempts + 1
                /\ \A j \in 1..procs'[p].attempts : j \notin free
           /\ procs'[p].pc = "gt_pos" =>
                /\ free # {}
                /\ \E j \in free :
                     /\ \A k \in free : j <= k
                     /\ procs'[p].tokenNumber =
                          CandidateCode(r.serviceType, r.todayTokens, j)
           /\ procs'[p].pc = "idle" =>
                /\ free = {}
                /\ last' = Resp("generateToken", FALSE,
                                "Unable to generate unique token number", <<>>, 0)
                /\ tokens' = tokens]_vars

\* a creation has just failed as exhausted: its ten candidates all existed
C28_Witness ==
  /\ Failed("generateToken")
  /\ last.error = "Unable to generate unique token number"
  /\ Len(tokens) >= maxAttempts

\* C29: with creations that run one after the other, the numbers of each category
\* restart every day: the k-th token of a category created on a day carries the
\* number k, whatever tokens of earlier days are in the store.
C29_NumbersRestartEachDay ==
  \A i \in TokenIds :
    SequenceNumber(tokens[i].tokenNumber) =
      Cardinality({j \in TokensOf(tokens[i].serviceType) :
                     j <= i /\ DayOf(j) = DayOf(i)})

\* C30: a creation for one of the four categories fails in one way only, as exhausted
\* after ten candidates; a race of two creations of a category for one code never
\* ends one of them with the uniqueness conflict of the insert.
C30_OnlyExhaustionFails ==
  Failed("generateToken") => last.error = "Unable to generate unique token number"

\* slot p's direct call of tryAssignWaitingToken returns in this step
TryAssignReturns(p) ==
  /\ procs[p].op = "tryAssignWaitingToken"
  /\ procs'[p].pc = "idle"

\* the counter the call is to use: the given one if it is available, otherwise the
\* available counter of the lowest number
CounterToUse(counterId) ==
  IF counterId \in getAvailableCounters THEN counterId ELSE FirstAvailableCounter

\* C31: with calls that run one after the other, tryAssignWaitingToken(counterId)
\* returns false only when no token is Waiting or no counter is available at all;
\* when it returns true an earliest Waiting token is Serving on the given counter if
\* that one is available and otherwise on the available counter of the lowest number.
C31_TryAssignUsesGivenOrFirst ==
  [][\A p \in Procs :
       TryAssignReturns(p) =>
         /\ ~last'.ok => WaitingIds = {} \/ getAvailableCounters = {}
         /\ last'.ok =>
              \E i \in WaitingIds :
                /\ \A j \in WaitingIds : tokens[i].createdAt <= tokens[j].createdAt
                /\ tokens'[i].status = SERVING
                /\ tokens'[i].counterId = CounterToUse(procs[p].counterId)]_vars

\* C32: with calls that run one after the other, a tryAssignWaitingToken call made
\* when no token is Waiting or no counter is available writes nothing in any of its
\* steps and returns false with no error, so repeating it gives the same state.
C32_TryAssignNoOp ==
  [][\A p \in Procs :
       /\ procs'[p].op = "tryAssignWaitingToken" \/ procs[p].op = "tryAssignWaitingToken"
       /\ procs'[p] # procs[p]
       /\ WaitingIds = {} \/ getAvailableCounters = {}
       => /\ tokens' = tokens
          /\ counters' = counters
          /\ TryAssignReturns(p) => ~last'.ok /\ last'.error = ""]_vars

\* a call has returned false while a token waits and the only counters are busy or
\* inactive
C32_Witness ==
  /\ last.op = "tryAssignWaitingToken" /\ ~last.ok
  /\ WaitingIds # {}
  /\ counters # <<>>
  /\ getAvailableCounters = {}

\* counter c is Active and idle while a token waits, in the state after the step
IdleWhileWaiting(c) == WaitingIds' # {} /\ c \in getAvailableCounters'

\* C33: with requests that run one after the other, when a registration, a
\* reactivation or the completion of the token a counter was serving has finished,
\* no token is Waiting while that counter is Active and idle.
C33_AvailableCounterTakesWaiting ==
  [][/\ \A p \in Procs :
          /\ procs[p].op \in {"addCounter", "activateCounter"}
          /\ procs'[p].pc = "idle"
          /\ last'.ok
          => \A c \in CounterIds : c = last'.counterId => ~IdleWhileWaiting(c)
     /\ \A i \in TokenIds :
          completeTokenCall(tokens[i].tokenNumber) /\ tokens[i].status = SERVING
            => \A c \in CounterIds : c = tokens[i].counterId => ~IdleWhileWaiting(c)]_vars

\* the same for registrations and reactivations alone
C33_RegistrationTakesWaiting ==
  [][\A p \in Procs :
       /\ procs[p].op \in {"addCounter", "activateCounter"}
       /\ procs'[p].pc = "idle"
       /\ last'.ok
       => \A c \in CounterIds : c = last'.counterId => ~IdleWhileWaiting(c)]_vars

\* C34: with requests that run one after the other, the request that creates a token
\* emits tokenGenerated, the request in which a token goes from Waiting to Serving
\* emits tokenCalled (assignments made by a registration or a reactivation included),
\* the request in which a token goes from Serving to Completed emits tokenCompleted,
\* and a request that failed emits nothing.
C34_TransitionsAreNotified ==
  [][/\ \A p \in Procs :
          procs[p].pc = "gt_estimate" /\ procs'[p].pc = "idle"
            => notification(last') = "tokenGenerated"
     /\ \A i \in TokenIds :
          tokens[i].status = WAITING /\ tokens'[i].status = SERVING
            => notification(last') = "tokenCalled"
     /\ \A i \in TokenIds :
          tokens[i].status = SERVING /\ tokens'[i].status = COMPLETED
            => notification(last') = "tokenCompleted"
     /\ last' # last /\ ~last'.ok => notification(last') = ""]_vars

\* the same without the assignments that registrations and reactivations make
C34_RouteTransitionsAreNotified ==
  [][/\ \A p \in Procs :
          procs[p].pc = "gt_estimate" /\ procs'[p].pc = "idle"
            => notification(last') = "tokenGenerated"
     /\ \A i \in TokenIds, p \in Procs :
          /\ tokens[i].status = WAITING /\ tokens'[i].status = SERVING
          /\ procs[p].pc = "cn_assign" /\ procs'[p].pc = "idle"
          => notification(last') = "tokenCalled"
     /\ \A i \in TokenIds :
          tokens[i].status = SERVING /\ tokens'[i].status = COMPLETED
            => notification(last') = "tokenCompleted"
     /\ last' # last /\ ~last'.ok => notification(last') = ""]_vars

\* C35: of two call-next requests for two different counters that run concurrently
\* while another token is still Waiting, the second never succeeds with the token the
\* first has put in service: a token that is Serving on one counter is not assigned
\* again and keeps its counter.
C35_CallNextAssignsOnce ==
  [][\A p \in Procs, i \in TokenIds :
       /\ callNextAssign(p)
       /\ i = procs[p].nextToken
       /\ tokens[i].status = SERVING
       /\ procs[p].counterId \in CounterRows \ {tokens[i].counterId}
       /\ WaitingIds # {}
       => /\ ~last'.ok
          /\ tokens'[i].counterId = tokens[i].counterId]_vars

\* C36: in every state the live positions of the k Waiting tokens of a category are
\* exactly the numbers 1..k, each taken by one token, also when several of the tokens
\* carry the same createdAt.
C36_LivePositionsAreOneToK ==
  \A serviceType \in Categories :
    LET waiting == TokensOf(serviceType) \cap WaitingIds IN
      /\ {calculateQueuePosition(tokens[i].tokenNumber) : i \in waiting}
           = 1..Cardinality(waiting)
      /\ \A i, j \in waiting :
           i # j => calculateQueuePosition(tokens[i].tokenNumber)
                      # calculateQueuePosition(tokens[j].tokenNumber)

\* the same for categories whose Waiting tokens carry pairwise different createdAt
C36_LivePositionsWithoutTies ==
  \A serviceType \in Categories :
    LET waiting == TokensOf(serviceType) \cap WaitingIds IN
      (\A i, j \in waiting : i # j => tokens[i].createdAt # tokens[j].createdAt)
      => {calculateQueuePosition(tokens[i].tokenNumber) : i \in waiting}
           = 1..Cardinality(waiting)

\* C37: a call-next or complete request that has written a token answers with
\* success, and so does a creation whose token is in the store, also when the
\* notification step that follows the write throws.
C37_ErrorMeansNoChange ==
  [][/\ tokens' # tokens /\ last' # last => last'.ok
     /\ \A p \in Procs :
          procs[p].pc = "gt_estimate" /\ procs'[p].pc = "idle" => last'.ok]_vars

\* an error answer of one of the three routes with the tokens as they were
C37_ErrorWithoutChange ==
  [][/\ last' # last
     /\ ~last'.ok
     /\ last'.op \in {"callNext", "postComplete", "postTokens"}
     => tokens' = tokens]_vars

\* the fields of a token that neither operation writes
KeptFields(t) ==
  <<t.tokenNumber, t.serviceType, t.createdAt, t.queuePosition>>

\* the step writes at most the token of the given code, and of that token only
\* status, counterId, calledAt and completedAt
WritesOnlyToken(tokenNumber) ==
  /\ DOMAIN tokens' = DOMAIN tokens
  /\ counters' = counters
  /\ \A i \in TokenIds :
       IF tokens[i].tokenNumber = tokenNumber
         THEN KeptFields(tokens'[i]) = KeptFields(tokens[i])
         ELSE tokens'[i] = tokens[i]

\* C38: assignTokenToCounter and completeToken write only status, counterId, calledAt
\* and completedAt of the token they are called with: its row number, code, category,
\* createdAt and stored queuePosition, every other token and every counter stay as
\* they were, and no row is removed.
C38_OnlyAddressedTokenChanges ==
  [][/\ \A tokenNumber \in TokenCodes, counterId \in CounterIds :
          assignTokenToCounterCall(tokenNumber, counterId)
            => /\ WritesOnlyToken(tokenNumber)
               /\ \A i \in TokenIds : tokens'[i].completedAt = tokens[i].completedAt
     /\ \A tokenNumber \in TokenCodes :
          completeTokenCall(tokenNumber)
            => /\ WritesOnlyToken(tokenNumber)
               /\ \A i \in TokenIds : tokens'[i].calledAt = tokens[i].calledAt]_vars

\* a token that was put in service has just been completed while another token waits
C38_Witness ==
  /\ Succeeded("completeToken")
  /\ \E i, j \in TokenIds :
       /\ tokens[i].tokenNumber = last.tokenNumber
       /\ tokens[i].status = COMPLETED /\ tokens[i].calledAt # Null
       /\ tokens[j].status = WAITING

\* C39: after every step each Serving token references a counter that has a row, and
\* a deleteCounter call made while a Serving token references the counter fails and
\* writes nothing, whatever assignment to the counter runs next to the deletion.
C39_ServingReferencesCounter ==
  [][/\ \A i \in DOMAIN tokens' :
          tokens'[i].status = SERVING => tokens'[i].counterId \in CounterRows'
     /\ \A p \in Procs, counterId \in CounterIds :
          deleteCounterCount(p, counterId) /\ ServingTokens(counterId) # {}
            => ~last'.ok /\ tokens' = tokens /\ counters' = counters]_vars

\* the same for the refusal alone: a deletion that sees a Serving token writes nothing
C39_DeletionRefusedWhileServing ==
  [][\A p \in Procs, counterId \in CounterIds :
       deleteCounterCount(p, counterId) /\ ServingTokens(counterId) # {}
         => ~last'.ok /\ tokens' = tokens /\ counters' = counters]_vars

\* C40: once the client has recorded three failures and no success since, a request
\* made less than 60 seconds after the last recorded failure is rejected and no fetch
\* is made; a request made 60 seconds or more after it sets the failure count to zero
\* and is sent. A successful response sets the count to zero; a 4xx response leaves
\* the count and the time of the last failure alone; a 5xx response, a timeout and a
\* network error are recorded.
C40_CircuitBreaker ==
  [][\A r \in Requests :
       /\ (request(r) \/ requestRetry(r)) /\ api.failureCount >= 3 =>
            IF DateNow - api.lastFailureTime < 60000
              THEN /\ api'.requests[r].pc = "idle"
                   /\ api'.error = Unavailable
                   /\ api'.failureCount = api.failureCount
              ELSE /\ api'.requests[r].pc = "fetch"
                   /\ api'.failureCount = 0
       /\ \A o \in Outcomes :
            fetchReturns(r, o) =>
              IF ~o.thrown /\ o.status \in 200..299
                THEN api'.failureCount = 0
                ELSE IF ~o.thrown /\ o.status \in 400..499
                  THEN /\ api'.failureCount = api.failureCount
                       /\ api'.lastFailureTime = api.lastFailureTime
                  ELSE /\ api'.failureCount > api.failureCount
                       /\ api'.lastFailureTime = DateNow]_vars

\* a request was rejected by the open circuit, and the next one, a minute after the
\* last failure, has set the count to zero and is at the server
C40_Witness ==
  /\ api.error = Unavailable
  /\ api.failureCount = 0
  /\ api.lastFailureTime > 0
  /\ DateNow - api.lastFailureTime >= 60000
  /\ \E r \in Requests : api.requests[r].pc = "fetch"

====
